---- MODULE Spec2Model ----
(***************************************************************************)
(* The signer run-loop of stacks-signer (src/stacks-signer/src/runloop.rs) *)
(* as a state machine.  One call of run_one_pass is four steps, taken in   *)
(* the order of the code: the command is appended (pc "wait" -> "init"),   *)
(* the signer is initialized when it still is Uninitialized ("init" ->     *)
(* "event"), the event is dispatched ("event" -> "command") and            *)
(* process_next_command runs ("command" -> "wait").  An Option<T> is the   *)
(* sequence <<>> (None) or <<x>> (Some(x)); a Result<T, E> likewise, with  *)
(* <<>> for Err.  Bytes are small naturals, byte strings are sequences.    *)
(***************************************************************************)
EXTENDS Naturals, Integers, Sequences, FiniteSets, TLC

VARIABLES
    pc,            \* position inside run_one_pass, or "panic" / "hung"
    signer_id,     \* signing_round.signer_id, fixed by the config
    public_keys,   \* signing_round.public_keys.signers, fixed by the config
    state,         \* RunLoop::state
    commands,      \* RunLoop::commands, front of the queue first
    blocks,        \* RunLoop::blocks, a map from signature hash to BlockInfo
    coordinator,   \* what the run-loop reads of RunLoop::coordinator
    ping_entries,  \* the keys of RunLoop::ping_entries
    out,           \* what the pass has done so far to the outside world
    latched,       \* history: the hashes execute_command started a signing
                   \* round for
    validating     \* history: the blocks given to submit_block_for_validation
                   \* in this pass or an earlier one

vars ==
    <<pc, signer_id, public_keys, state, commands, blocks, coordinator,
      ping_entries, out, latched, validating>>

----------------------------------------------------------------------------
(* Bounds of the model *)

\* the longest command queue a pass may be started with
MaxQueue == 1
\* the number of chunks of one StackerDB event
MaxChunks == 2

(* Program constants *)

\* a Sha512Trunc256Sum is 32 bytes
HashLen == 32
\* b'n', the byte appended to the hash in a vote against a block
VoteNo == 110

----------------------------------------------------------------------------
(* Values *)

None == <<>>
Some(x) == <<x>>
IsSome(o) == o # <<>>
Unwrap(o) == o[1]

\* The header whose signature_hash() is an Err, and the one that hashes.
BadHdr == 0
GoodHdr == 1
Hdrs == {BadHdr, GoodHdr}

\* NakamotoBlock: what the run-loop reads of it.
Block(hdr, txs, sig) == [hdr |-> hdr, txs |-> txs, signer_signature |-> sig]

\* the blocks miners, the stacks node and the host hand to the run-loop
Blocks == {Block(h, <<>>, 0) : h \in Hdrs}

\* the first byte of the hash of header hdr (a hash is no block encoding)
HashByte(hdr) == 100 + hdr

\* NakamotoBlockHeader::signature_hash
signature_hash(block) ==
    IF block.hdr = BadHdr THEN None
    ELSE Some([i \in 1..HashLen |-> HashByte(block.hdr)])

\* NakamotoBlock::serialize_to_vec
serialize_to_vec(block) ==
    <<block.hdr, block.signer_signature, Len(block.txs)>> \o block.txs

\* read_next::<NakamotoBlock, _>: the block a byte string starts with
read_next_block(bytes) ==
    IF /\ Len(bytes) >= 3
       /\ bytes[1] \in Hdrs
       /\ Len(bytes) >= 3 + bytes[3]
    THEN Some(Block(bytes[1], SubSeq(bytes, 4, 3 + bytes[3]), bytes[2]))
    ELSE None

\* Sha512Trunc256Sum::from_bytes
hash_from_bytes(bytes) == IF Len(bytes) = HashLen THEN Some(bytes) ELSE None

\* the number of signers in the peer set
NumSigners == 2
SignerIds == 0..(NumSigners - 1)
PublicKeys == [i \in SignerIds |-> 10 + i]

\* the peer sets of a config: every signer id, or every id but 0
PeerSets == {PublicKeys, [i \in SignerIds \ {0} |-> PublicKeys[i]]}

\* calculate_coordinator: whether signers.get(&0) is None, which unwrap()
\* answers with a panic
calculate_coordinator_panics(keys) == 0 \notin DOMAIN keys

\* a coordinator elected by the highest signer id
calculate_coordinator_last(keys) ==
    LET last == CHOOSE i \in DOMAIN keys : \A j \in DOMAIN keys : j <= i
    IN  <<last, keys[last]>>

\* calculate_coordinator, when signer 0 is a peer
calculate_coordinator(keys) == <<0, keys[0]>>

\* the most key ids a signer of the config holds
MaxKeysPerSigner == 2

\* From<&Config>: threshold and dkg_threshold, usize arithmetic
threshold(total_keys) == (total_keys * 7) \div 10
dkg_threshold(total_keys) == (total_keys * 9) \div 10

\* From<&Config>: what CoordinatorConfig and Signer::new are given
RunLoop_from(total_signers, total_keys) ==
    [coordinator |-> [threshold |-> threshold(total_keys),
                      dkg_threshold |-> dkg_threshold(total_keys),
                      num_signers |-> total_signers,
                      num_keys |-> total_keys],
     signing_round |-> [threshold |-> threshold(total_keys),
                        total_signers |-> total_signers,
                        total_keys |-> total_keys]]

\* BlockInfo::new
BlockInfo_new(block) ==
    [block |-> block, vote |-> None, valid |-> None,
     nonce_request |-> None, signing_round |-> FALSE]

\* BlockInfo::new_with_request
BlockInfo_new_with_request(block, nonce_request) ==
    [block |-> block, vote |-> None, valid |-> None,
     nonce_request |-> Some(nonce_request), signing_round |-> TRUE]

\* HashMap::insert and HashMap::remove
MapInsert(m, k, v) == [x \in DOMAIN m \cup {k} |-> IF x = k THEN v ELSE m[x]]
MapKeep(m, k) == m
MapRemove(m, k) == [x \in DOMAIN m \ {k} |-> m[x]]
EmptyMap == [x \in {} |-> 0]

\* RunLoopCommand
CmdDkg == [type |-> "Dkg"]
CmdSign(block) == [type |-> "Sign", block |-> block]
CmdPing == [type |-> "Ping"]
Commands == {CmdDkg, CmdPing} \cup {CmdSign(b) : b \in Blocks}
RoundCommands == {CmdDkg} \cup {CmdSign(b) : b \in {x \in Blocks : IsSome(signature_hash(x))}}

\* nothing done to the outside world
\*   dispatched Some of the kind of event the pass has dispatched
\*   published  the messages given to stackerdb.send_message_with_retry
\*   submitted  the blocks given to submit_block_for_validation
\*   handoff    Some of the packets given to handle_packets, each with the
\*              message it arrived with, and the block cache at that moment
\*   roles      the roles whose process_inbound_messages was called, in order
\*   results    the vector sent on the results channel
\*   started    the rounds the coordinator was asked to start and started
\*   resets     the calls of coordinator.reset()
\*   popped     Some of the command process_next_command popped
\*   resumed    Some of the hash whose cached nonce request a verdict resumed
\*   enqueued   the blocks a verdict appended a Sign command for
\*   rtt        the ids of the pongs an RTT sample was logged for
\*   ignored    the number of chunks the ping filter took for the signer's own
\*   returned   the Option<Vec<OperationResult>> run_one_pass returned
NoOut ==
    [dispatched |-> None, published |-> <<>>, submitted |-> <<>>,
     handoff |-> None, roles |-> <<>>, results |-> <<>>, started |-> <<>>, resets |-> 0,
     popped |-> None, resumed |-> None, enqueued |-> <<>>, rtt |-> <<>>,
     ignored |-> 0,
     returned |-> None]

\* the run-loop as one value, for the handlers below
Self ==
    [signer_id |-> signer_id, state |-> state, commands |-> commands,
     blocks |-> blocks, coordinator |-> coordinator,
     ping_entries |-> ping_entries, out |-> out, latched |-> latched,
     public_keys |-> public_keys, hung |-> FALSE, panicked |-> FALSE]


----------------------------------------------------------------------------
(* Effects on the outside world *)

\* StackerDB::send_message_with_retry
Publish(s, m) == [s EXCEPT !.out.published = Append(@, m)]

\* StacksClient::submit_block_for_validation
SubmitBlock(s, block) == [s EXCEPT !.out.submitted = Append(@, block)]

\* RunLoop::transactions: created empty and never filled
transactions == <<>>

----------------------------------------------------------------------------
(* The vote on a block *)

\* determine_vote with the 'n' put in front of the hash
determine_vote_prefixed(block_info, nonce_request, txids, hash) ==
    LET valid == IF IsSome(block_info.valid) THEN Unwrap(block_info.valid) ELSE FALSE
        vote_bytes == IF ~valid THEN <<VoteNo>> \o hash ELSE hash
    IN  [block_info |-> [block_info EXCEPT !.vote = Some(vote_bytes)],
         nonce_request |-> [nonce_request EXCEPT !.message = vote_bytes]]

\* determine_vote content with one expected transaction in the block
determine_vote_some_txid(block_info, nonce_request, txids, hash) ==
    LET valid == IF IsSome(block_info.valid) THEN Unwrap(block_info.valid) ELSE FALSE
        some_in == \E i \in 1..Len(txids) :
                      \E j \in 1..Len(block_info.block.txs) :
                         block_info.block.txs[j] = txids[i]
        vote_bytes == IF ~valid \/ ~some_in THEN Append(hash, VoteNo) ELSE hash
    IN  [block_info |-> [block_info EXCEPT !.vote = Some(vote_bytes)],
         nonce_request |-> [nonce_request EXCEPT !.message = vote_bytes]]

\* RunLoop::determine_vote: the BlockInfo and the request, both updated
determine_vote(block_info, nonce_request, txids, hash) ==
    LET valid == IF IsSome(block_info.valid) THEN Unwrap(block_info.valid) ELSE FALSE
        all_in == \A i \in 1..Len(txids) :
                     \E j \in 1..Len(block_info.block.txs) :
                        block_info.block.txs[j] = txids[i]
        vote_bytes == IF ~valid \/ ~all_in THEN Append(hash, VoteNo) ELSE hash
    IN  [block_info |-> [block_info EXCEPT !.vote = Some(vote_bytes)],
         nonce_request |-> [nonce_request EXCEPT !.message = vote_bytes]]

\* RunLoop::validate_nonce_request: the run-loop, the request and the verdict
validate_nonce_request(s, request) ==
    LET blk == read_next_block(request.message)
        hash == IF IsSome(blk) THEN signature_hash(Unwrap(blk)) ELSE None
    IN  IF ~IsSome(blk) \/ ~IsSome(hash)
        THEN [s |-> s, request |-> request, ok |-> FALSE]
        ELSE LET h == Unwrap(hash)
                 block == Unwrap(blk)
             IN  IF h \notin DOMAIN s.blocks
                 THEN [s |-> SubmitBlock(
                                [s EXCEPT !.blocks = MapInsert(@, h,
                                    BlockInfo_new_with_request(block, request))],
                                block),
                       request |-> request, ok |-> FALSE]
                 ELSE IF ~IsSome(s.blocks[h].valid)
                 THEN [s |-> [s EXCEPT !.blocks[h].nonce_request = Some(request)],
                       request |-> request, ok |-> FALSE]
                 ELSE LET d == determine_vote(s.blocks[h], request, transactions, h)
                      IN  [s |-> [s EXCEPT !.blocks[h] = d.block_info],
                           request |-> d.nonce_request, ok |-> TRUE]

\* validate_signature_share_request without the overwrite of the message
validate_signature_share_request_as_sent(s, request) ==
    LET message_len == Len(request.message)
        known == /\ message_len >= HashLen
                 /\ SubSeq(request.message, 1, HashLen) \in DOMAIN s.blocks
                 /\ IsSome(s.blocks[SubSeq(request.message, 1, HashLen)].vote)
    IN  [request |-> request,
         ok |-> /\ \/ message_len = HashLen
                   \/ message_len = HashLen + 1 /\ request.message[HashLen + 1] = VoteNo
                /\ known]

\* RunLoop::validate_signature_share_request: the request and the verdict
validate_signature_share_request(s, request) ==
    LET message_len == Len(request.message)
        reject == [request |-> request, ok |-> FALSE]
    IN  IF ~(message_len = HashLen + 1 /\ request.message[HashLen + 1] = VoteNo)
           /\ message_len # HashLen
        THEN reject
        ELSE LET hash == hash_from_bytes(SubSeq(request.message, 1, HashLen))
             IN  IF ~IsSome(hash) THEN reject
                 ELSE IF Unwrap(hash) \notin DOMAIN s.blocks THEN reject
                 ELSE IF ~IsSome(s.blocks[Unwrap(hash)].vote) THEN reject
                 ELSE [request |-> [request EXCEPT
                                       !.message = Unwrap(s.blocks[Unwrap(hash)].vote)],
                       ok |-> TRUE]

----------------------------------------------------------------------------
(* Packets *)

\* wsts::net::Message, the variants the coordinator signs
CoordinatorMessages ==
    {"DkgBegin", "DkgPrivateBegin", "NonceRequest", "SignatureShareRequest"}

\* a verification that accepts every packet
packet_verify_any(packet, keys, coordinator_public_key) == TRUE

\* wsts::net::Packet::verify, as the run-loop calls it
packet_verify(packet, keys, coordinator_public_key) ==
    IF packet.msg.type \in CoordinatorMessages
    THEN packet.sig = coordinator_public_key
    ELSE /\ packet.msg.signer_id \in DOMAIN keys
         /\ packet.sig = keys[packet.msg.signer_id]

\* RunLoop::verify_chunk: the run-loop and Some of the packet to hand on
verify_chunk(s, chunk, coordinator_public_key) ==
    IF chunk.data.kind # "Packet"
    THEN [s |-> s, packet |-> None]
    ELSE LET packet == chunk.data.packet IN
         IF ~packet_verify(packet, s.public_keys, coordinator_public_key)
         THEN [s |-> s, packet |-> None]
         ELSE IF packet.msg.type = "SignatureShareRequest"
         THEN LET v == validate_signature_share_request(s, packet.msg)
              IN  [s |-> s,
                   packet |-> IF v.ok THEN Some([packet EXCEPT !.msg = v.request])
                              ELSE None]
         ELSE IF packet.msg.type = "NonceRequest"
         THEN LET v == validate_nonce_request(s, packet.msg)
              IN  [s |-> v.s,
                   packet |-> IF v.ok THEN Some([packet EXCEPT !.msg = v.request])
                              ELSE None]
         ELSE [s |-> s, packet |-> Some(packet)]

\* RunLoop::filter_signer_chunks: the run-loop and the packets to hand on,
\* each with the message it arrived with
RECURSIVE filter_chunks_from(_, _, _, _)
filter_chunks_from(s, chunks, key, acc) ==
    IF chunks = <<>> THEN [s |-> s, packets |-> acc]
    ELSE LET v == verify_chunk(s, Head(chunks), key)
         IN  filter_chunks_from(v.s, Tail(chunks), key,
                IF IsSome(v.packet)
                THEN Append(acc, [packet |-> Unwrap(v.packet),
                                  arrived |-> Head(chunks).data.packet.msg])
                ELSE acc)

filter_signer_chunks(s, chunks) ==
    IF calculate_coordinator_panics(s.public_keys)
    THEN [s |-> [s EXCEPT !.panicked = TRUE], packets |-> <<>>]
    ELSE filter_chunks_from(s, chunks, calculate_coordinator(s.public_keys)[2], <<>>)

----------------------------------------------------------------------------
(* Operation results and the two roles *)

\* a signer that answers every signature with an approval
block_submission_accepted(block, message, block_hash) ==
    [kind |-> "BlockResponse::Accepted", block |-> block]

\* RunLoop::send_block_response_messages: the message for the miners
block_submission(block, message, block_hash) ==
    IF message = block_hash
    THEN [kind |-> "BlockResponse::Accepted", block |-> block]
    ELSE [kind |-> "BlockRejection", block |-> block,
          reason |-> "SignedRejection"]

\* RunLoop::send_block_response_messages, one result after the other
RECURSIVE block_responses_from(_, _, _)
block_responses_from(s, operation_results, aggregate_public_key) ==
    IF operation_results = <<>> THEN s
    ELSE LET r == Head(operation_results)
             rest == Tail(operation_results)
             message == s.coordinator.message
             block_hash_bytes == IF Len(message) > HashLen
                                 THEN SubSeq(message, 1, HashLen) ELSE message
             block_hash == hash_from_bytes(block_hash_bytes)
         IN  IF r.type # "Sign"
             THEN block_responses_from(s, rest, aggregate_public_key)
             ELSE IF ~r.verifies
             THEN block_responses_from(s, rest, aggregate_public_key)
             ELSE IF ~IsSome(block_hash)
             THEN block_responses_from(s, rest, aggregate_public_key)
             ELSE IF Unwrap(block_hash) \notin DOMAIN s.blocks
             THEN block_responses_from(s, rest, aggregate_public_key)
             ELSE LET h == Unwrap(block_hash)
                      block == [s.blocks[h].block EXCEPT
                                   !.signer_signature = r.signature]
                  IN  block_responses_from(
                          Publish([s EXCEPT !.blocks = MapRemove(@, h)],
                                  block_submission(block, message, h)),
                          rest, aggregate_public_key)

send_block_response_messages(s, operation_results) ==
    IF ~IsSome(s.coordinator.aggregate_public_key) THEN s
    ELSE block_responses_from(s, operation_results,
                              Unwrap(s.coordinator.aggregate_public_key))

\* send_operation_results without the test on the number of results
send_operation_results_always(s, operation_results) ==
    [s EXCEPT !.state = "Idle", !.out.results = operation_results]

\* RunLoop::send_operation_results
send_operation_results(s, operation_results) ==
    IF Len(operation_results) > 0
    THEN [s EXCEPT !.state = "Idle", !.out.results = operation_results]
    ELSE s

\* RunLoop::send_outbound_messages
RECURSIVE send_outbound_messages(_, _)
send_outbound_messages(s, outbound_messages) ==
    IF outbound_messages = <<>> THEN s
    ELSE send_outbound_messages(
             Publish(s, [kind |-> "Packet", packet |-> Head(outbound_messages)]),
             Tail(outbound_messages))

\* OperationResult, with what signature.verify will say of a Sign
OpDkg == [type |-> "Dkg"]
OpSign(verifies) == [type |-> "Sign", signature |-> 1, verifies |-> verifies]
OpSignTaproot == [type |-> "SignTaproot"]

\* what process_inbound_messages of the two roles may answer to one batch:
\* signer is Some of the signer's outbound packets, or None for an Err;
\* coordinator is Some of its outbound packets, its operation results and
\* whether it took the message of a NonceRequest of the batch as the message
\* of its round, or None for an Err.  vectors are the result vectors drawn,
\* errs is whether an Err is drawn too.
RoleAnswers(packets, vectors, errs) ==
    LET has_nonce == \E i \in 1..Len(packets) :
                        packets[i].packet.msg.type = "NonceRequest"
        signer_out == <<[msg |-> [type |-> "NonceResponse", signer_id |-> 0],
                         sig |-> 0]>>
        coord_out == <<[msg |-> [type |-> "DkgBegin"], sig |-> 0]>>
        answer(rs, take) == Some([outbound |-> coord_out, results |-> rs, take |-> take])
    IN  {[signer |-> Some(signer_out), coordinator |-> answer(rs, FALSE)] :
            rs \in vectors}
        \cup {[signer |-> Some(signer_out), coordinator |-> answer(<<>>, TRUE)] :
                 x \in IF has_nonce THEN {1} ELSE {}}
        \cup (IF errs
              THEN {[signer |-> None, coordinator |-> answer(rs, FALSE)] :
                       rs \in vectors}
                   \cup {[signer |-> Some(signer_out), coordinator |-> None]}
              ELSE {})

\* Coordinator::process_inbound_messages, its effect on what the run-loop
\* reads of the coordinator
coordinator_after(coord, packets, answer) ==
    LET nonce == {i \in 1..Len(packets) : packets[i].packet.msg.type = "NonceRequest"}
        first == CHOOSE i \in nonce : \A j \in nonce : i <= j
        c1 == IF answer.take /\ nonce # {}
              THEN [coord EXCEPT !.message = packets[first].packet.msg.message]
              ELSE coord
    IN  IF \E i \in 1..Len(answer.results) : answer.results[i].type = "Dkg"
        THEN [c1 EXCEPT !.aggregate_public_key = Some(1)]
        ELSE c1

\* handle_packets that gives up at the first Err of a role
handle_packets_or_return(s, packets, answers) ==
    IF ~IsSome(answers.signer)
    THEN [s EXCEPT !.out.handoff = Some([packets |-> packets, blocks |-> s.blocks]),
                   !.out.roles = @ \o <<"signer">>]
    ELSE LET s0 == [s EXCEPT !.out.handoff =
                                 Some([packets |-> packets, blocks |-> s.blocks]),
                             !.out.roles = @ \o <<"signer", "coordinator">>]
         IN  IF ~IsSome(answers.coordinator) THEN s0
             ELSE LET coord == Unwrap(answers.coordinator)
                      s1 == send_outbound_messages(
                                [s0 EXCEPT !.coordinator =
                                               coordinator_after(@, packets, coord)],
                                Unwrap(answers.signer))
                      s2 == send_outbound_messages(s1, coord.outbound)
                      s3 == send_block_response_messages(s2, coord.results)
                  IN  send_operation_results(s3, coord.results)

\* RunLoop::handle_packets
handle_packets(s, packets, answers) ==
    LET signer_outbound_messages ==
            IF IsSome(answers.signer) THEN Unwrap(answers.signer) ELSE <<>>
        coord == IF IsSome(answers.coordinator)
                 THEN Unwrap(answers.coordinator)
                 ELSE [outbound |-> <<>>, results |-> <<>>, take |-> FALSE]
        s0 == [s EXCEPT !.out.handoff = Some([packets |-> packets, blocks |-> s.blocks]),
                        !.out.roles = @ \o <<"signer", "coordinator">>,
                        !.coordinator = coordinator_after(@, packets, coord)]
        s1 == send_outbound_messages(s0, signer_outbound_messages)
        s2 == send_outbound_messages(s1, coord.outbound)
        s3 == send_block_response_messages(s2, coord.results)
    IN  send_operation_results(s3, coord.results)

----------------------------------------------------------------------------
(* Validation verdicts and miner proposals *)

\* a rejection that also submits the block for validation
broadcast_and_submit(s, block) ==
    SubmitBlock(Publish(s, [kind |-> "BlockRejection", block |-> block,
                            reason |-> "InvalidSignatureHash"]),
                block)

\* RunLoop::broadcast_signature_hash_rejection
broadcast_signature_hash_rejection(s, block) ==
    Publish(s, [kind |-> "BlockRejection", block |-> block,
                reason |-> "InvalidSignatureHash"])

\* a signer that appends a Sign whoever the coordinator is
enqueue_sign_any_signer(s, block_info) ==
    IF (IF IsSome(block_info.valid) THEN Unwrap(block_info.valid) ELSE FALSE)
       /\ ~block_info.signing_round
    THEN [s EXCEPT !.commands = Append(@, CmdSign(block_info.block)),
                   !.out.enqueued = Append(@, block_info.block)]
    ELSE s

\* the queue after the verdict on a block with no pending nonce request
enqueue_sign(s, block_info) ==
    IF calculate_coordinator_panics(s.public_keys)
    THEN [s EXCEPT !.panicked = TRUE]
    ELSE
    IF /\ (IF IsSome(block_info.valid) THEN Unwrap(block_info.valid) ELSE FALSE)
       /\ ~block_info.signing_round
       /\ calculate_coordinator(s.public_keys)[1] = s.signer_id
    THEN [s EXCEPT !.commands = Append(@, CmdSign(block_info.block)),
                   !.out.enqueued = Append(@, block_info.block)]
    ELSE s

\* block_info.nonce_request.clone() in the place of take()
clone_nonce_request(block_info) == block_info

\* block_info.nonce_request.take(): the BlockInfo left behind
take_nonce_request(block_info) == [block_info EXCEPT !.nonce_request = None]

\* RunLoop::handle_block_validate_response; response.ok is TRUE for
\* BlockValidateResponse::Ok and FALSE for BlockValidateResponse::Reject
handle_block_validate_response(s, response, answers) ==
    LET hash == signature_hash(response.block) IN
    IF ~IsSome(hash) THEN broadcast_signature_hash_rejection(s, response.block)
    ELSE
    LET h == Unwrap(hash)
        entry == IF h \in DOMAIN s.blocks THEN s.blocks[h]
                 ELSE BlockInfo_new(response.block)
        block_info == [entry EXCEPT !.valid = Some(response.ok)]
        s1 == [s EXCEPT !.blocks = MapInsert(@, h, block_info)]
        s2 == IF response.ok THEN s1
              ELSE Publish(s1, [kind |-> "BlockRejection", block |-> response.block,
                                reason |-> "ValidationFailed"])
    IN  IF IsSome(block_info.nonce_request)
        THEN LET request == Unwrap(block_info.nonce_request)
                 taken == take_nonce_request(block_info)
                 d == determine_vote(taken, request, transactions, h)
                 packet == [msg |-> d.nonce_request, sig |-> 0]
             IN  handle_packets([s2 EXCEPT !.blocks[h] = d.block_info,
                                           !.out.resumed = Some(h)],
                                <<[packet |-> packet, arrived |-> request]>>,
                                answers)
        ELSE enqueue_sign(s2, block_info)

\* RunLoop::handle_stackerdb_chunk_event_miners
RECURSIVE handle_stackerdb_chunk_event_miners(_, _)
handle_stackerdb_chunk_event_miners(s, modified_slots) ==
    IF modified_slots = <<>> THEN s
    ELSE LET chunk == Head(modified_slots)
             blk == read_next_block(chunk.data)
             hash == IF IsSome(blk) THEN signature_hash(Unwrap(blk)) ELSE None
             s1 == IF ~IsSome(blk) THEN s
                   ELSE IF ~IsSome(hash)
                   THEN broadcast_signature_hash_rejection(s, Unwrap(blk))
                   ELSE SubmitBlock(
                            [s EXCEPT !.blocks = MapInsert(@, Unwrap(hash),
                                                    BlockInfo_new(Unwrap(blk)))],
                            Unwrap(blk))
         IN  handle_stackerdb_chunk_event_miners(s1, Tail(modified_slots))

----------------------------------------------------------------------------
(* Pings *)

\* crate::client::PING_SLOT_ID and SIGNER_SLOTS_PER_USER
PING_SLOT_ID == 10
SIGNER_SLOTS_PER_USER == 11

\* u32::saturating_sub, as an Option
saturating_sub(a, b) == IF a < b THEN Some(0) ELSE Some(a - b)

\* u32::checked_sub
checked_sub(a, b) == IF a < b THEN None ELSE Some(a - b)

\* is_ping_slot without the offset of the ping slot
is_ping_slot_unshifted(slot_id) == slot_id % SIGNER_SLOTS_PER_USER = 0

\* ping::is_ping_slot
is_ping_slot(slot_id) ==
    LET v == checked_sub(slot_id, PING_SLOT_ID)
    IN  IF ~IsSome(v) THEN FALSE
        ELSE Unwrap(v) % SIGNER_SLOTS_PER_USER = 0

\* SignerMessage::slot_id of a Ping or a Pong
ping_slot_id(id) == id * SIGNER_SLOTS_PER_USER + PING_SLOT_ID

\* verify_packet without the check for the signer's own slot
verify_packet_any_slot(chunk, id) ==
    IF ~is_ping_slot(chunk.slot_id) THEN None
    ELSE IF chunk.data.kind # "Ping" THEN None
    ELSE Some(Some(chunk.data.packet))

\* ping::Packet::verify_packet: None, Some(Err(())) or Some(Ok(packet))
verify_packet(chunk, id) ==
    IF ~is_ping_slot(chunk.slot_id) THEN None
    ELSE IF chunk.data.kind # "Ping" THEN None
    ELSE IF ping_slot_id(id) = chunk.slot_id THEN Some(None)
    ELSE Some(Some(chunk.data.packet))

\* what a Formatter writes: literal text, a number, a vector of bytes
Lit(text) == [lit |-> text]
Num(n) == [num |-> n]
Bytes(b) == [bytes |-> b]

\* the output of a derived Debug: every field of the struct
fmt_derived(p) ==
    <<Lit(p.type), Lit(" { "), Lit("id"), Lit(": "), Num(p.id), Lit(", "),
      Lit("payload"), Lit(": "), Bytes(p.payload), Lit(" }")>>

\* impl Debug for Ping and for Pong: debug_struct(name).field("id", id)
fmt(p) ==
    <<Lit(p.type), Lit(" { "), Lit("id"), Lit(": "), Num(p.id), Lit(" }")>>

\* a pong that leaves the payload of the ping behind
pong_without_payload(ping) == [type |-> "Pong", id |-> ping.id, payload |-> <<>>]

\* Ping::pong
pong(ping) == [type |-> "Pong", id |-> ping.id, payload |-> ping.payload]

\* a registry that knows every id
get_any(entries, id) == TRUE

\* self.ping_entries.get(&id), whether it is Some
get(entries, id) == id \in entries

\* RunLoop::filter_and_process_ping_chunks: the run-loop and the chunks that
\* are no pings
RECURSIVE ping_chunks_from(_, _, _)
ping_chunks_from(s, chunks, signer_chunks) ==
    IF chunks = <<>> THEN [s |-> s, signer_chunks |-> signer_chunks]
    ELSE LET chunk == Head(chunks)
             v == verify_packet(chunk, s.signer_id)
         IN  IF ~IsSome(v)
             THEN ping_chunks_from(s, Tail(chunks), Append(signer_chunks, chunk))
             ELSE IF ~IsSome(Unwrap(v))
             THEN ping_chunks_from([s EXCEPT !.out.ignored = @ + 1],
                                   Tail(chunks), signer_chunks)
             ELSE LET msg == Unwrap(Unwrap(v)) IN
                  IF msg.type = "Pong"
                  THEN ping_chunks_from(
                           IF get(s.ping_entries, msg.id)
                           THEN [s EXCEPT !.out.rtt = Append(@, msg.id)] ELSE s,
                           Tail(chunks), signer_chunks)
                  ELSE ping_chunks_from(
                           Publish(s, [kind |-> "Ping", packet |-> pong(msg)]),
                           Tail(chunks), signer_chunks)

filter_and_process_ping_chunks(s, chunks) == ping_chunks_from(s, chunks, <<>>)

\* RunLoop::handle_stackerdb_chunk_event_signers, up to handle_packets
inbound_packets(s, modified_slots) ==
    LET p == filter_and_process_ping_chunks(s, modified_slots)
    IN  filter_signer_chunks(p.s, p.signer_chunks)

\* RunLoop::handle_stackerdb_chunk_event_signers
handle_stackerdb_chunk_event_signers(s, modified_slots, answers) ==
    LET f == inbound_packets(s, modified_slots)
    IN  IF f.s.panicked THEN f.s ELSE handle_packets(f.s, f.packets, answers)

----------------------------------------------------------------------------
(* Commands *)

\* the ids Ping::new may draw
NumPingIds == 1
PingIds == 1..NumPingIds

\* Ping::new: the payload vector is created with a capacity and no length
ping_new(id, payload_size) == [type |-> "Ping", id |-> id, payload |-> <<>>]

\* RunLoop::execute_command, one call: the run-loop and whether the command
\* was executed.  start_ok is whether the coordinator starts the round,
\* id the id Ping::new draws.
execute_command(s, command, start_ok, id) ==
    IF command.type = "Dkg"
    THEN IF start_ok
         THEN [s |-> [Publish(s, [kind |-> "Packet",
                                  packet |-> [msg |-> [type |-> "DkgBegin"], sig |-> 0]])
                         EXCEPT !.state = "Dkg", !.out.started = Append(@, "Dkg")],
               ok |-> TRUE]
         ELSE [s |-> [s EXCEPT !.out.resets = 1], ok |-> FALSE]
    ELSE IF command.type = "Sign"
    THEN LET hash == signature_hash(command.block) IN
         IF ~IsSome(hash) THEN [s |-> s, ok |-> FALSE]
         ELSE LET h == Unwrap(hash)
                  s1 == IF h \in DOMAIN s.blocks THEN s
                        ELSE [s EXCEPT !.blocks = MapInsert(@, h,
                                                     BlockInfo_new(command.block))]
              IN  IF s1.blocks[h].signing_round THEN [s |-> s1, ok |-> FALSE]
                  ELSE IF start_ok
                  THEN [s |-> [Publish(s1, [kind |-> "Packet",
                                   packet |-> [msg |-> [type |-> "NonceRequest",
                                       message |-> serialize_to_vec(command.block)],
                                       sig |-> 0]])
                                  EXCEPT !.state = "Sign",
                                         !.blocks[h].signing_round = TRUE,
                                         !.coordinator.message =
                                             serialize_to_vec(command.block),
                                         !.out.started = Append(@, "Sign"),
                                         !.latched = @ \cup {h}],
                        ok |-> TRUE]
                  ELSE [s |-> [s1 EXCEPT !.out.resets = 1], ok |-> FALSE]
    ELSE LET ping == ping_new(id, 0)
         IN  [s |-> Publish([s EXCEPT !.ping_entries = @ \cup {ping.id}],
                            [kind |-> "Ping", packet |-> ping]),
              ok |-> TRUE]

\* a queue that gives its youngest command first
pop_back(queue) ==
    [command |-> queue[Len(queue)], rest |-> SubSeq(queue, 1, Len(queue) - 1)]

\* VecDeque::pop_front on a queue that is not empty
pop_front(queue) == [command |-> Head(queue), rest |-> Tail(queue)]

\* a run-loop that pops a command while a round is running
may_pop_when_initialized(st) == st # "Uninitialized"

\* whether the run-loop may pop a command in this state
may_pop(st) == st = "Idle"

\* process_next_command that drops a command that failed
process_next_command_once(s, starts, id) ==
    IF ~may_pop(s.state) \/ s.commands = <<>> THEN s
    ELSE LET command == pop_front(s.commands).command
             s0 == [s EXCEPT !.commands = pop_front(@).rest,
                             !.out.popped = Some(command)]
         IN  execute_command(s0, command, starts = "ok", id).s

\* RunLoop::process_next_command.  starts is what the coordinator answers
\* to the calls of the retry loop: "ok", "retry" (one Err, then Ok) or
\* "never" (Err for ever); a command that is never executed leaves the loop
\* spinning (hung).
\* process_next_command that goes on to the next command while the state
\* is Idle
process_next_command_drain(s, starts, id) ==
    process_next_command_once(process_next_command_once(s, starts, id), starts, id)

process_next_command(s, starts, id) ==
    IF ~may_pop(s.state) \/ s.commands = <<>> THEN s
    ELSE LET command == pop_front(s.commands).command
             s0 == [s EXCEPT !.commands = pop_front(@).rest,
                             !.out.popped = Some(command)]
             first == execute_command(s0, command, starts = "ok", id)
             second == execute_command(first.s, command, starts = "retry", id)
         IN  IF first.ok THEN first.s
             ELSE IF second.ok THEN second.s
             ELSE [second.s EXCEPT !.hung = TRUE]

----------------------------------------------------------------------------
(* Initialization *)

\* initialize without the test on the front of the queue
initialize_requeue(s, key) ==
    LET s1 == IF IsSome(key)
              THEN [s EXCEPT !.coordinator.aggregate_public_key = key]
              ELSE IF calculate_coordinator_panics(s.public_keys)
              THEN [s EXCEPT !.panicked = TRUE]
              ELSE IF calculate_coordinator(s.public_keys)[1] = s.signer_id
              THEN [s EXCEPT !.commands = <<CmdDkg>> \o @]
              ELSE s
    IN  IF s1.panicked THEN s1 ELSE [s1 EXCEPT !.state = "Idle"]

\* RunLoop::initialize after get_aggregate_public_key answered Ok(key)
initialize(s, key) ==
    LET s1 == IF IsSome(key)
              THEN [s EXCEPT !.coordinator.aggregate_public_key = key]
              ELSE IF calculate_coordinator_panics(s.public_keys)
              THEN [s EXCEPT !.panicked = TRUE]
              ELSE IF /\ calculate_coordinator(s.public_keys)[1] = s.signer_id
                      /\ (s.commands = <<>> \/ Head(s.commands) # CmdDkg)
              THEN [s EXCEPT !.commands = <<CmdDkg>> \o @]
              ELSE s
    IN  IF s1.panicked THEN s1 ELSE [s1 EXCEPT !.state = "Idle"]

----------------------------------------------------------------------------
(* Inputs *)

\* the signature hash of the block that has one, and byte strings around it
GoodBlock == Block(GoodHdr, <<>>, 0)
BadBlock == Block(BadHdr, <<>>, 0)
GoodHash == Unwrap(signature_hash(GoodBlock))
Garbage == <<9>>

\* a chunk of the signers' StackerDB holding a wsts packet
PacketChunk(msg, sig) ==
    [slot_id |-> 0, data |-> [kind |-> "Packet", packet |-> [msg |-> msg, sig |-> sig]]]

NonceRequestOf(message) == [type |-> "NonceRequest", message |-> message]
SignatureShareRequestOf(message) == [type |-> "SignatureShareRequest", message |-> message]

CoordinatorKey == PublicKeys[0]
OtherKey == PublicKeys[1]

\* the requests of a coordinator about the good block, and one that is
\* not signed by the coordinator
RequestChunks ==
    {PacketChunk(NonceRequestOf(serialize_to_vec(GoodBlock)), k) :
        k \in {CoordinatorKey, OtherKey}}
    \cup {PacketChunk(SignatureShareRequestOf(m), CoordinatorKey) :
             m \in {GoodHash, Append(GoodHash, VoteNo)}}

\* requests the signer has to refuse, other packets and other messages
OtherChunks ==
    {PacketChunk(NonceRequestOf(m), CoordinatorKey) :
        m \in {serialize_to_vec(BadBlock), Garbage}}
    \cup {PacketChunk(SignatureShareRequestOf(m), CoordinatorKey) :
             m \in {Append(GoodHash, 0), SubSeq(GoodHash, 1, HashLen - 1)}}
    \cup {PacketChunk([type |-> "NonceResponse", signer_id |-> 1], k) :
             k \in {CoordinatorKey, OtherKey}}
    \cup {[slot_id |-> 0, data |-> [kind |-> "BlockResponse"]],
          [slot_id |-> 0, data |-> [kind |-> "Undecodable"]]}

\* the payloads of the pings of the peers
Payloads == {<<>>, <<1>>}

PingChunks ==
    {[slot_id |-> ping_slot_id(i),
      data |-> [kind |-> "Ping", packet |-> [type |-> t, id |-> 1, payload |-> p]]] :
        i \in SignerIds, t \in {"Ping", "Pong"}, p \in Payloads}

\* the messages of the signature share requests a coordinator may send:
\* votes for and against the good block and a block never seen, and byte
\* strings of other lengths and endings
ShareMessages ==
    LET unseen == [i \in 1..HashLen |-> HashByte(GoodHdr) + 1]
    IN  {GoodHash, Append(GoodHash, VoteNo), Append(GoodHash, 0),
         SubSeq(GoodHash, 1, HashLen - 1), Append(Append(GoodHash, VoteNo), VoteNo),
         unseen, Append(unseen, VoteNo), <<>>}

\* pings written to slots that are no ping slots
StrayPingChunks ==
    {[slot_id |-> n,
      data |-> [kind |-> "Ping", packet |-> [type |-> "Ping", id |-> 1, payload |-> <<>>]]] :
        n \in {0, PING_SLOT_ID + 1}}

\* the result vectors of a coordinator that runs DKG and signing rounds
RoundResults == {<<>>, <<OpDkg>>, <<OpSign(TRUE)>>, <<OpSign(FALSE)>>}

MinerChunks ==
    {[slot_id |-> 0, data |-> d] :
        d \in {serialize_to_vec(GoodBlock), serialize_to_vec(BadBlock), Garbage}}

\* the sequences of 1..n elements of S
RECURSIVE SeqsUpTo(_, _)
SeqsUpTo(S, n) ==
    IF n = 0 THEN {<<>>}
    ELSE LET shorter == SeqsUpTo(S, n - 1)
         IN  shorter \cup {Append(q, x) : q \in shorter, x \in S}

ChunkEvents(S) == SeqsUpTo(S, MaxChunks) \ {<<>>}

----------------------------------------------------------------------------
(* The steps of run_one_pass *)

\* run_one_pass with process_next_command called before the event is matched
pc_after_command_first(p) ==
    CASE p = "wait" -> "init"
      [] p = "init" -> "command"
      [] p = "command" -> "event"
      [] p = "event" -> "wait"

\* run_one_pass: the position that follows position p
pc_after(p) ==
    CASE p = "wait" -> "init"
      [] p = "init" -> "event"
      [] p = "event" -> "command"
      [] p = "command" -> "wait"

\* the run-loop s becomes the state and the pass moves on
Install(s) ==
    /\ pc' = IF s.panicked THEN "panic"
             ELSE IF s.hung THEN "hung" ELSE pc_after(pc)
    /\ state' = s.state
    /\ commands' = s.commands
    /\ blocks' = s.blocks
    /\ coordinator' = s.coordinator
    /\ ping_entries' = s.ping_entries
    /\ out' = s.out
    /\ latched' = s.latched
    /\ validating' = validating \cup {s.out.submitted[i] : i \in 1..Len(s.out.submitted)}
    /\ UNCHANGED <<signer_id, public_keys>>

Init ==
    /\ pc = "wait"
    /\ public_keys \in PeerSets
    /\ signer_id \in DOMAIN public_keys
    /\ state = "Uninitialized"
    /\ commands = <<>>
    /\ blocks = EmptyMap
    /\ coordinator = [aggregate_public_key |-> None, message |-> <<>>]
    /\ ping_entries = {}
    /\ out = NoOut
    /\ latched = {}
    /\ validating = {}

\* run_one_pass is called: the command, if any, goes to the back of the
\* queue, which holds fewer than bound commands
PushWithin(cmds, bound) ==
    /\ pc = "wait"
    /\ \E cmd \in {None} \cup {Some(c) : c \in cmds} :
          /\ IsSome(cmd) => Len(commands) < bound
          /\ Install([Self EXCEPT !.out = NoOut,
                                  !.commands = IF IsSome(cmd)
                                               THEN Append(@, Unwrap(cmd)) ELSE @])

PushOver(cmds) == PushWithin(cmds, MaxQueue)

\* the signer is Uninitialized and the stacks node answers
Initialize ==
    /\ pc = "init"
    /\ state = "Uninitialized"
    /\ \E key \in {None, Some(1)} : Install(initialize(Self, key))

\* the signer is Uninitialized and the stacks node does not answer in time
InitializeTimeout ==
    /\ pc = "init"
    /\ state = "Uninitialized"
    /\ pc' = "panic"
    /\ UNCHANGED <<signer_id, public_keys, state, commands, blocks, coordinator, ping_entries,
                   out, latched, validating>>

\* the signer is initialized already
Initialized ==
    /\ pc = "init"
    /\ state # "Uninitialized"
    /\ Install(Self)

\* the event, when it may append a command, leaves the queue within bound
DispatchWithin(s, kind, bound) ==
    /\ Len(s.commands) <= bound
    /\ Install([s EXCEPT !.out.dispatched = Some(kind)])

Dispatch(s, kind) == DispatchWithin(s, kind, MaxQueue)

EventNone ==
    /\ pc = "event"
    /\ Dispatch(Self, "None")

\* a verdict of the stacks node on a block
BlockProposalOver(vectors, errs) ==
    /\ pc = "event"
    /\ \E ok \in BOOLEAN, block \in Blocks :
       \E answers \in RoleAnswers(<<>>, vectors, errs) :
          Dispatch(handle_block_validate_response(
                       Self, [ok |-> ok, block |-> block], answers),
                   "BlockProposal")

\* chunks of the signers' StackerDB
SignersOver(chunks, vectors, errs) ==
    /\ pc = "event"
    /\ \E modified_slots \in ChunkEvents(chunks) :
       \E answers \in RoleAnswers(inbound_packets(Self, modified_slots).packets,
                                  vectors, errs) :
          Dispatch(handle_stackerdb_chunk_event_signers(Self, modified_slots,
                                                        answers),
                   "StackerDB signers")

\* the value run_one_pass ends with
run_one_pass_result(s) == None

\* process_next_command and the return of run_one_pass
ProcessNextCommand ==
    /\ pc = "command"
    /\ \E starts \in {"ok", "retry", "never"}, id \in PingIds :
          LET s == process_next_command(Self, starts, id)
          IN  Install([s EXCEPT !.out.returned = run_one_pass_result(s)])

PushCommand == PushOver(RoundCommands)

EventBlockProposal == BlockProposalOver(RoundResults, FALSE)

EventSigners == SignersOver(RequestChunks, RoundResults, FALSE)

EventMiners ==
    /\ pc = "event"
    /\ \E modified_slots \in ChunkEvents(MinerChunks) :
          Dispatch(handle_stackerdb_chunk_event_miners(Self, modified_slots),
                   "StackerDB miners")

EventOtherContract ==
    /\ pc = "event"
    /\ Dispatch(Self, "StackerDB other")

\* the life of the block cache: DKG and Sign commands, verdicts, proposals
\* of miners and the requests of a coordinator
Next ==
    \/ PushCommand
    \/ Initialize
    \/ InitializeTimeout
    \/ Initialized
    \/ EventNone
    \/ EventBlockProposal
    \/ EventSigners
    \/ EventMiners
    \/ EventOtherContract
    \/ ProcessNextCommand

Spec == Init /\ [][Next]_vars

PushAnyCommand == PushOver(Commands)

EventNonceRequest ==
    SignersOver({PacketChunk(NonceRequestOf(serialize_to_vec(GoodBlock)),
                             CoordinatorKey)},
                RoundResults, FALSE)

\* the command queue: every command, and the events that end a round or
\* append a Sign
NextQueue ==
    \/ PushAnyCommand
    \/ Initialize
    \/ InitializeTimeout
    \/ Initialized
    \/ EventNone
    \/ EventBlockProposal
    \/ EventNonceRequest
    \/ ProcessNextCommand

SpecQueue == Init /\ [][NextQueue]_vars

\* a nonce request for the good block, to roles that may answer with an Err
EventRoles ==
    SignersOver({PacketChunk(NonceRequestOf(serialize_to_vec(GoodBlock)),
                             CoordinatorKey)},
                RoundResults, TRUE)

\* run_one_pass is called with no command
PushNone == PushOver({})

\* votes: the proposals of the miners, the nonce requests of a coordinator
\* and the verdicts of the node, with no commands but the ones the verdicts
\* append
NextVote ==
    \/ PushNone
    \/ Initialize
    \/ InitializeTimeout
    \/ Initialized
    \/ EventRoles
    \/ EventBlockProposal
    \/ EventMiners
    \/ ProcessNextCommand

SpecVote == Init /\ [][NextVote]_vars

PushPing == PushOver({CmdPing})

\* chunks of the signers' StackerDB that hold pings and pongs
EventPings == SignersOver(PingChunks \cup StrayPingChunks, {<<>>}, FALSE)

\* round-trip probes: Ping commands and the pings and pongs of the peers
NextPing ==
    \/ PushPing
    \/ Initialize
    \/ InitializeTimeout
    \/ Initialized
    \/ EventNone
    \/ EventPings
    \/ ProcessNextCommand

SpecPing == Init /\ [][NextPing]_vars

\* the longest queue a command is appended to in SpecFifo, less one
MaxFifo == 2

PushFifo == PushWithin(Commands, MaxFifo)

FifoEventNone ==
    /\ pc = "event"
    /\ DispatchWithin(Self, "None", MaxFifo + 1)

\* a verdict of the stacks node, which may append a Sign
FifoEventBlockProposal ==
    /\ pc = "event"
    /\ \E ok \in BOOLEAN, block \in Blocks :
       \E answers \in RoleAnswers(<<>>, RoundResults, FALSE) :
          DispatchWithin(handle_block_validate_response(
                             Self, [ok |-> ok, block |-> block], answers),
                         "BlockProposal", MaxFifo + 1)

\* the order of the queue: queues of up to MaxFifo + 1 commands
NextFifo ==
    \/ PushFifo
    \/ Initialize
    \/ InitializeTimeout
    \/ Initialized
    \/ FifoEventNone
    \/ FifoEventBlockProposal
    \/ ProcessNextCommand

SpecFifo == Init /\ [][NextFifo]_vars

\* the roles answer a request of the coordinator with the result of the
\* round that is running
EventRoundEnds ==
    /\ pc = "event"
    /\ state \in {"Dkg", "Sign"}
    /\ \E answers \in RoleAnswers(<<>>, {<<OpDkg>>, <<OpSign(TRUE)>>}, FALSE) :
          DispatchWithin(handle_stackerdb_chunk_event_signers(
                             Self,
                             <<PacketChunk(SignatureShareRequestOf(GoodHash),
                                           CoordinatorKey)>>,
                             answers),
                         "StackerDB signers", MaxFifo + 1)

\* process_next_command when the coordinator starts the round at the first
\* or at a later attempt
ProcessStarts ==
    /\ pc = "command"
    /\ \E starts \in {"ok", "retry"}, id \in PingIds :
          LET s == process_next_command(Self, starts, id)
          IN  Install([s EXCEPT !.out.returned = run_one_pass_result(s)])

\* the host calls run_one_pass again and again, the stacks node answers the
\* initialization, and the round that was started ends with a result
NextLive ==
    \/ PushFifo
    \/ Initialize
    \/ Initialized
    \/ FifoEventNone
    \/ EventRoundEnds
    \/ ProcessStarts

SpecLive ==
    /\ Init
    /\ [][NextLive]_vars
    /\ WF_vars(NextLive)
    /\ SF_vars(EventRoundEnds)

----------------------------------------------------------------------------
(* The claims *)

HasVote(cache, h) == h \in DOMAIN cache /\ IsSome(cache[h].vote)

\* the packets of the latest handle_packets that are requests of a coordinator
HandedRequests ==
    IF IsSome(out.handoff)
    THEN {p \in {Unwrap(out.handoff).packets[i] :
                    i \in 1..Len(Unwrap(out.handoff).packets)} :
             p.packet.msg.type \in {"NonceRequest", "SignatureShareRequest"}}
    ELSE {}

\* the request carries the vote the block cache held when it was handed on
CarriesStoredVote(p) ==
    LET m == p.packet.msg.message
        cache == Unwrap(out.handoff).blocks
    IN  /\ Len(m) >= HashLen
        /\ HasVote(cache, SubSeq(m, 1, HashLen))
        /\ cache[SubSeq(m, 1, HashLen)].vote = Some(m)

\* C1 as stated: a NonceRequest or SignatureShareRequest handed to the two
\* roles, by verify_chunk or by a verdict that resumes it, carries in its
\* message the vote the block cache stores for its hash at the moment of the
\* hand-over.
C1_HandedRequestsCarryStoredVote ==
    \A p \in HandedRequests : CarriesStoredVote(p)

\* C2: a vote stored in the block cache is 32 or 33 bytes long, starts with
\* the hash its BlockInfo is keyed under, and its 33rd byte, if any, is 'n'.
C2_VoteShape ==
    \A h \in DOMAIN blocks :
       IsSome(blocks[h].vote) =>
          LET v == Unwrap(blocks[h].vote)
          IN  /\ Len(v) \in {HashLen, HashLen + 1}
              /\ SubSeq(v, 1, HashLen) = h
              /\ Len(v) = HashLen + 1 => v[HashLen + 1] = VoteNo

\* a vote against a block is stored
C2_Witness ==
    \E h \in DOMAIN blocks :
       IsSome(blocks[h].vote) /\ Len(Unwrap(blocks[h].vote)) = HashLen + 1

\* C3 as stated: once the vote of a cached block is set, no step changes or
\* unsets it while the block stays in the cache.
C3_VoteImmutable ==
    [][\A h \in DOMAIN blocks :
          (IsSome(blocks[h].vote) /\ h \in DOMAIN blocks')
             => blocks'[h].vote = blocks[h].vote]_vars

\* C4 as stated: once the valid field of a cached block has left None, no
\* step changes it while the block stays in the cache.
C4_ValidSetOnce ==
    [][\A h \in DOMAIN blocks :
          (IsSome(blocks[h].valid) /\ h \in DOMAIN blocks')
             => blocks'[h].valid = blocks[h].valid]_vars

\* C5 as stated: execute_command sets signing_round from false to true at
\* most once for a hash.
C5_SigningRoundLatchesOnce ==
    [][\A h \in latched :
          ~(/\ pc = "command"
            /\ Len(out'.started) > Len(out.started)
            /\ out'.started[Len(out'.started)] = "Sign"
            /\ IsSome(out'.popped)
            /\ signature_hash(Unwrap(out'.popped).block) = Some(h))]_vars

\* C6 as stated: no BlockInfo is invalid and in a signing round.
C6_NoInvalidBlockInSigningRound ==
    \A h \in DOMAIN blocks :
       ~(blocks[h].valid = Some(FALSE) /\ blocks[h].signing_round)

\* C7: when a verdict resumes a cached nonce request, the BlockInfo holds no
\* nonce request when the request is given to handle_packets, and none when
\* handle_block_validate_response has returned.
C7_NonceRequestClearedBeforeResume ==
    IsSome(out.resumed) =>
       LET h == Unwrap(out.resumed)
       IN  /\ IsSome(out.handoff)
           /\ h \in DOMAIN Unwrap(out.handoff).blocks
           /\ Unwrap(out.handoff).blocks[h].nonce_request = None
           /\ h \in DOMAIN blocks => blocks[h].nonce_request = None

\* a verdict has resumed a cached nonce request and its answer was published
C7_Witness ==
    /\ IsSome(out.resumed)
    /\ Len(Unwrap(out.handoff).packets) = 1
    /\ out.published # <<>>
    /\ Unwrap(out.resumed) \in DOMAIN blocks

\* C8: a command is popped and executed only in state Idle; in any other
\* state process_next_command leaves the queue, the state and the
\* coordinator as they are and starts no round.
C8_PopOnlyWhenIdle ==
    [][/\ (pc # "wait" /\ (out'.popped # out.popped \/ out'.started # out.started))
             => (pc = "command" /\ state = "Idle")
       /\ (pc = "command" /\ state # "Idle")
             => /\ commands' = commands
                /\ state' = state
                /\ coordinator' = coordinator
                /\ blocks' = blocks
                /\ out' = out]_vars

\* process_next_command has run with a command queued while a round was
\* running
C8_Witness ==
    /\ pc = "wait"
    /\ IsSome(out.dispatched)
    /\ state \in {"Dkg", "Sign"}
    /\ commands # <<>>
    /\ ~IsSome(out.popped)

\* C9: the state changes from Uninitialized to Idle on initialize, from Idle
\* to Dkg or Sign exactly when such a command starts, and to Idle exactly
\* when an event yields operation results; a Ping leaves it Idle, no results
\* leave it as it is, and it never returns to Uninitialized.
C9_StateTransitions ==
    [][/\ state' # state =>
             \/ state = "Uninitialized" /\ state' = "Idle" /\ pc = "init"
             \/ /\ state = "Idle" /\ state' = "Dkg" /\ pc = "command"
                /\ out'.popped = Some(CmdDkg) /\ out'.started = <<"Dkg">>
             \/ /\ state = "Idle" /\ state' = "Sign" /\ pc = "command"
                /\ IsSome(out'.popped) /\ Unwrap(out'.popped).type = "Sign"
                /\ out'.started = <<"Sign">>
             \/ state' = "Idle" /\ pc = "event" /\ out'.results # <<>>
       /\ (pc = "init" /\ pc' = "event" /\ state = "Uninitialized") => state' = "Idle"
       /\ (pc = "command" /\ out'.started = <<"Dkg">>) => state' = "Dkg"
       /\ (pc = "command" /\ out'.started = <<"Sign">>) => state' = "Sign"
       /\ (pc = "event" /\ out'.results # <<>>) => state' = "Idle"
       /\ (pc = "event" /\ out'.results = <<>>) => state' = state
       /\ (pc = "command" /\ out'.popped = Some(CmdPing)) => state' = "Idle"
       /\ state # "Uninitialized" => state' # "Uninitialized"]_vars

\* operation results have ended a round
C9_Witness ==
    /\ pc = "command"
    /\ out.results # <<>>
    /\ state = "Idle"
    /\ latched # {}

\* C10: no command is popped and no round is started before the event of
\* the pass has been dispatched, and a pass whose event yields operation
\* results, which make the state Idle, pops the command at the head of the
\* queue before it returns.
C10_EventBeforeCommand ==
    [][/\ (out'.popped # out.popped \/ out'.started # out.started)
             => IsSome(out.dispatched)
       /\ (~IsSome(out.dispatched) /\ IsSome(out'.dispatched))
             => (~IsSome(out.popped) /\ out.started = <<>>)
       /\ (pc # "wait" /\ pc' = "wait" /\ out'.results # <<>>
             /\ ~IsSome(out'.popped))
             => commands' = <<>>]_vars

\* the event of a pass yielded operation results and a command was executed
\* in the same pass
C10_Witness ==
    /\ pc = "wait"
    /\ out.results # <<>>
    /\ IsSome(out.popped)
    /\ out.started # <<>>

\* the pass has handed the command it popped to execute_command: a round was
\* started, a Ping was published, or the retry loop still calls it
HandedToExecute ==
    \/ out'.started # out.started
    \/ out'.published # out.published
    \/ pc' = "hung"

\* C11: the queue changes only by a command appended at the back (the cmd of
\* the pass, or the Sign of a verdict), by the Dkg initialize puts at the
\* front, and by process_next_command taking the command at the front, which
\* it hands to execute_command in the same pass; nothing is duplicated or
\* dropped.
C11_QueueIsFifo ==
    [][/\ pc = "wait" =>
             \/ commands' = commands
             \/ \E c \in Commands : commands' = Append(commands, c)
       /\ pc = "init" =>
             \/ commands' = commands
             \/ state = "Uninitialized" /\ commands' = <<CmdDkg>> \o commands
       /\ pc = "event" =>
             \/ commands' = commands
             \/ \E b \in Blocks : commands' = Append(commands, CmdSign(b))
       /\ pc = "command" =>
             \/ commands' = commands /\ out'.popped = out.popped
             \/ /\ commands # <<>>
                /\ commands' = Tail(commands)
                /\ out'.popped = Some(Head(commands))
                /\ HandedToExecute]_vars

\* the oldest of three commands was executed and the two younger ones are
\* left in their order
C11_Witness ==
    /\ pc = "wait"
    /\ IsSome(out.popped)
    /\ out.started # <<>>
    /\ Len(commands) = 2
    /\ commands[1] # commands[2]
    /\ Unwrap(out.popped) \notin {commands[1], commands[2]}

\* C12: initialize with no aggregate key on the node leaves the coordinator
\* as it is and, on the elected coordinator, a queue headed by exactly one
\* Dkg (none added when the head is a Dkg already), on any other signer the
\* queue as it was; with a key it installs the key and leaves the queue;
\* in both cases the state is Idle.  When the query fails the state stays
\* Uninitialized and the queue is unchanged.
C12_InitializeQueue ==
    [][(pc = "init" /\ state = "Uninitialized") =>
          \/ /\ pc' = "panic"
             /\ state' = "Uninitialized"
             /\ commands' = commands
             /\ coordinator' = coordinator
          \/ /\ pc' = "event"
             /\ state' = "Idle"
             /\ IF IsSome(coordinator'.aggregate_public_key)
                THEN commands' = commands
                ELSE /\ coordinator' = coordinator
                     /\ IF signer_id = calculate_coordinator(PublicKeys)[1]
                        THEN /\ Head(commands') = CmdDkg
                             /\ Len(commands') > 1 => commands'[2] # CmdDkg
                             /\ commands' = IF commands # <<>> /\ Head(commands) = CmdDkg
                                            THEN commands
                                            ELSE <<CmdDkg>> \o commands
                        ELSE commands' = commands]_vars

\* the elected coordinator was initialized without a key while a Dkg was
\* the only command of its queue
C12_Witness ==
    /\ pc = "event"
    /\ ~IsSome(out.dispatched)
    /\ ~IsSome(coordinator.aggregate_public_key)
    /\ signer_id = calculate_coordinator(PublicKeys)[1]
    /\ state = "Idle"
    /\ commands = <<CmdDkg>>

\* C13 as stated: a Sign command popped for a block a signing round was
\* started for already starts no further round, whatever happened between
\* the two commands.
C13_SameSignStartsOneRound ==
    [][(/\ pc = "command"
        /\ out'.popped # out.popped
        /\ Unwrap(out'.popped).type = "Sign"
        /\ IsSome(signature_hash(Unwrap(out'.popped).block))
        /\ Unwrap(signature_hash(Unwrap(out'.popped).block)) \in latched)
          => /\ out'.started = out.started
             /\ coordinator'.message = coordinator.message
             /\ state' = state]_vars

\* C14 as stated: when process_next_command pops a Sign for a block whose
\* BlockInfo is in a signing round already, the command is skipped and not
\* retried: the pass returns, the state stays Idle and no round is started.
C14_LatchedSignIsSkipped ==
    [][(/\ pc = "command"
        /\ state = "Idle"
        /\ commands # <<>>
        /\ Head(commands).type = "Sign"
        /\ IsSome(signature_hash(Head(commands).block))
        /\ Unwrap(signature_hash(Head(commands).block)) \in DOMAIN blocks
        /\ blocks[Unwrap(signature_hash(Head(commands).block))].signing_round)
          => /\ pc' = "wait"
             /\ state' = "Idle"
             /\ out'.started = out.started
             /\ commands' = Tail(commands)]_vars

\* C15 as stated: a NonceRequest stored in a BlockInfo while the validity of
\* its block is unknown stays stored until a verdict resumes it; no step
\* loses it.
C15_CachedRequestIsResumed ==
    [][\A h \in DOMAIN blocks :
          IsSome(blocks[h].nonce_request) =>
             \/ /\ h \in DOMAIN blocks'
                /\ blocks'[h].nonce_request = blocks[h].nonce_request
             \/ /\ pc = "event"
                /\ out'.resumed = Some(h)
                /\ IsSome(out'.handoff)
                /\ Len(Unwrap(out'.handoff).packets) = 1
                /\ Unwrap(out'.handoff).packets[1].arrived
                      = Unwrap(blocks[h].nonce_request)]_vars

\* the message is a hash, or a hash followed by 'n'
IsVoteShaped(m) ==
    \/ Len(m) = HashLen
    \/ Len(m) = HashLen + 1 /\ m[HashLen + 1] = VoteNo

\* C16: validate_signature_share_request accepts a request exactly when its
\* message is 32 bytes, or 33 bytes ending in 'n', and the block cache holds
\* a vote for the first 32 bytes; an accepted request carries the stored
\* vote, a refused one is not handed on, and the run-loop is left as it was.
C16_ShareRequestAcceptance ==
    \A m \in ShareMessages :
       LET request == SignatureShareRequestOf(m)
           v == validate_signature_share_request(Self, request)
           c == verify_chunk(Self, PacketChunk(request, CoordinatorKey), CoordinatorKey)
           expected == IsVoteShaped(m) /\ HasVote(blocks, SubSeq(m, 1, HashLen))
       IN  /\ v.ok <=> expected
           /\ v.ok => v.request.message = Unwrap(blocks[SubSeq(m, 1, HashLen)].vote)
           /\ IsSome(c.packet) <=> expected
           /\ IsSome(c.packet) => Unwrap(c.packet).msg = v.request
           /\ c.s = Self

\* a SignatureShareRequest was handed to the roles with the stored vote in
\* the place of the opposite vote it arrived with
C16_Witness ==
    \E p \in HandedRequests :
       /\ p.packet.msg.type = "SignatureShareRequest"
       /\ p.packet.msg.message # p.arrived.message
       /\ CarriesStoredVote(p)

\* C17 as stated: once the signer is initialized, no pass panics, whatever
\* the event and the peer set.
C17_NoPanicOnceInitialized == ~(pc = "panic" /\ state # "Uninitialized")

\* C18 as stated: a pass whose event made the coordinator produce operation
\* results returns those results.
C18_PassReturnsResults ==
    (pc = "wait" /\ out.results # <<>>) => out.returned = Some(out.results)

\* the slot ids is_ping_slot is asked about: the slots of the signers and
\* the ones of one more
SlotIds == 0..(NumSigners * SIGNER_SLOTS_PER_USER + PING_SLOT_ID)

\* a ping or a pong written to slot n
LatencyIn(kind, n) ==
    [slot_id |-> n,
     data |-> [kind |-> "Ping", packet |-> [type |-> kind, id |-> 1, payload |-> <<>>]]]

\* C19: is_ping_slot(s) is true exactly when s >= PING_SLOT_ID and
\* s - PING_SLOT_ID is a multiple of SIGNER_SLOTS_PER_USER; below
\* PING_SLOT_ID it is false, the subtraction does not wrap around.  The
\* run-loop takes a ping out of the signer chunks exactly in these slots.
C19_IsPingSlot ==
    \A n \in SlotIds :
       LET expected == /\ n >= PING_SLOT_ID
                       /\ \E k \in 0..n : n = PING_SLOT_ID + k * SIGNER_SLOTS_PER_USER
           kept == filter_and_process_ping_chunks(Self, <<LatencyIn("Ping", n)>>).signer_chunks
       IN  /\ is_ping_slot(n) <=> expected
           /\ n < PING_SLOT_ID => ~is_ping_slot(n)
           /\ kept = <<>> <=> expected

\* the ping of a peer in a ping slot was answered with a pong
C19_Witness ==
    /\ pc = "command"
    /\ out.dispatched = Some("StackerDB signers")
    /\ \E i \in 1..Len(out.published) :
          /\ out.published[i].kind = "Ping"
          /\ out.published[i].packet.type = "Pong"

\* C20: two signers never have the same ping slot; the pings and the pongs
\* of a signer are in one slot, which is a ping slot, so that verify_packet
\* takes them for the signer's own exactly when they are in its own slot.
C20_PingSlots ==
    \A i \in SignerIds :
       /\ \A j \in SignerIds \ {i} : ping_slot_id(i) # ping_slot_id(j)
       /\ is_ping_slot(ping_slot_id(i))
       /\ \A kind \in {"Ping", "Pong"} :
             LET v == verify_packet(LatencyIn(kind, ping_slot_id(i)), signer_id)
             IN  /\ IsSome(v)
                 /\ v = Some(None) <=> i = signer_id

\* the pong of a peer, read in the peer's ping slot, gave an RTT sample
C20_Witness ==
    /\ pc = "command"
    /\ out.dispatched = Some("StackerDB signers")
    /\ out.rtt # <<>>

\* the pings and pongs a signer may find in its own ping slot, of every id
\* and with and without a payload
SelfEchoes ==
    {[slot_id |-> ping_slot_id(signer_id),
      data |-> [kind |-> "Ping", packet |-> [type |-> t, id |-> i, payload |-> p]]] :
        t \in {"Ping", "Pong"}, i \in PingIds \cup {0}, p \in Payloads}

\* C21: a ping chunk in the signer's own ping slot publishes no Pong, logs
\* no RTT sample and hands no packet to the signer and coordinator roles,
\* for every signer id, every id of the ping and every payload; a batch
\* made of such chunks only leaves no Pong and no RTT sample in the pass.
C21_SelfEchoIsDropped ==
    /\ \A chunk \in SelfEchoes :
          LET r == filter_and_process_ping_chunks(Self, <<chunk>>)
          IN  /\ r.s.out.published = out.published
              /\ r.s.out.rtt = out.rtt
              /\ r.signer_chunks = <<>>
              /\ inbound_packets(Self, <<chunk>>).packets = <<>>
    /\ (pc = "command" /\ out.ignored = MaxChunks) =>
          /\ out.rtt = <<>>
          /\ \A i \in 1..Len(out.published) : out.published[i].kind # "Ping"

\* a signer that waits for the pong of its ping found its own ping slot
\* among the modified slots
C21_Witness ==
    /\ pc = "command"
    /\ out.dispatched = Some("StackerDB signers")
    /\ out.ignored > 0
    /\ ping_entries # {}

\* the pings and pongs the signer published in this pass
PublishedLatency ==
    {out.published[i].packet :
        i \in {j \in 1..Len(out.published) : out.published[j].kind = "Ping"}}

\* C22: the Debug output of a Ping or a Pong is the same for every payload
\* of a value with the same id; it has no text "payload" and writes no
\* vector of bytes.  This holds for every ping and pong, and so for the
\* ones the signer publishes.
C22_DebugHidesPayload ==
    \A packet \in PublishedLatency \cup
                  {[type |-> t, id |-> i, payload |-> <<>>] :
                      t \in {"Ping", "Pong"}, i \in PingIds \cup ping_entries} :
       \A p \in Payloads :
          LET text == fmt([packet EXCEPT !.payload = p])
          IN  /\ text = fmt(packet)
              /\ \A i \in 1..Len(text) :
                    /\ text[i] # Lit("payload")
                    /\ "bytes" \notin DOMAIN text[i]

\* the signer answered a ping that has a payload with a pong that has it too
C22_Witness ==
    /\ pc = "command"
    /\ \E packet \in PublishedLatency :
          /\ packet.type = "Pong"
          /\ packet.payload # <<>>

\* the peer sets that have signer 0: every set of further ids, every key
PeerSetsOfZero ==
    UNION {[ids \cup {0} -> {PublicKeys[i] : i \in SignerIds}] :
              ids \in SUBSET SignerIds}

\* C23: for every peer set that has signer 0, calculate_coordinator answers
\* (0, the key of signer 0), whatever the other ids and keys; it reads the
\* peer set only, so every signer of a peer set elects the same coordinator
\* in every pass: the coordinator's messages handed to the two roles are the
\* ones signed with the key of signer 0.
C23_CoordinatorIsSignerZero ==
    /\ pc = "event" =>
       \A keys \in PeerSetsOfZero \cup ({public_keys} \ {k \in PeerSets : 0 \notin DOMAIN k}) :
          /\ ~calculate_coordinator_panics(keys)
          /\ calculate_coordinator(keys) = <<0, keys[0]>>
    /\ (0 \in DOMAIN public_keys /\ IsSome(out.handoff) /\ ~IsSome(out.resumed)) =>
          \A i \in 1..Len(Unwrap(out.handoff).packets) :
             LET packet == Unwrap(out.handoff).packets[i].packet
             IN  packet.msg.type \in CoordinatorMessages =>
                    packet.sig = public_keys[0]

\* a signer other than signer 0 handed a request of the coordinator on
C23_Witness ==
    /\ pc = "command"
    /\ signer_id # 0
    /\ 0 \in DOMAIN public_keys
    /\ ~IsSome(out.resumed)
    /\ HandedRequests # {}

\* the least integer that is not below a / b
Ceil(a, b) == (a + b - 1) \div b

\* C24 as stated: for every total_keys >= 1 the run-loop built from a
\* config has threshold = ceil(7 * total_keys / 10) and dkg_threshold =
\* ceil(9 * total_keys / 10), in the coordinator and in the signer role.
C24_ThresholdsAreCeilings ==
    \A k \in 1..MaxKeysPerSigner :
       LET total_signers == Cardinality(DOMAIN public_keys)
           total_keys == total_signers * k
           r == RunLoop_from(total_signers, total_keys)
       IN  /\ r.coordinator.threshold = Ceil(7 * total_keys, 10)
           /\ r.coordinator.dkg_threshold = Ceil(9 * total_keys, 10)
           /\ r.signing_round.threshold = Ceil(7 * total_keys, 10)

\* the verdicts of the stacks node on the blocks that have a hash
Verdicts ==
    {[ok |-> ok, block |-> block] :
        ok \in BOOLEAN, block \in {b \in Blocks : IsSome(signature_hash(b))}}

\* C25: a verdict on a block with no cached NonceRequest appends a Sign
\* command for the block exactly when it is Ok, the block is not in a
\* signing round and this signer is the coordinator; a Reject, a block in a
\* signing round, a signer that is not the coordinator and a verdict that
\* resumes a cached NonceRequest leave the queue as it is.  A pass that
\* appended a Sign was one of the first kind.
C25_VerdictEnqueuesSign ==
    /\ pc = "event" =>
       \A response \in Verdicts :
       \A answers \in RoleAnswers(<<>>, RoundResults, FALSE) :
          LET h == Unwrap(signature_hash(response.block))
              cached == h \in DOMAIN blocks
              pending == cached /\ IsSome(blocks[h].nonce_request)
              signing == cached /\ blocks[h].signing_round
              elected == 0 \in DOMAIN public_keys /\ signer_id = 0
              after == handle_block_validate_response(Self, response, answers)
          IN  IF ~pending /\ response.ok /\ ~signing /\ elected
              THEN after.commands = Append(commands, CmdSign(response.block))
              ELSE after.commands = commands
    /\ (pc = "command" /\ out.enqueued # <<>>) =>
          /\ out.dispatched = Some("BlockProposal")
          /\ ~IsSome(out.resumed)
          /\ signer_id = 0
          /\ Len(out.enqueued) = 1
          /\ commands # <<>>
          /\ commands[Len(commands)] = CmdSign(out.enqueued[1])
          /\ LET h == Unwrap(signature_hash(out.enqueued[1]))
             IN  /\ blocks[h].valid = Some(TRUE)
                 /\ ~blocks[h].signing_round

\* an Ok verdict made the coordinator append a Sign for the block
C25_Witness ==
    /\ pc = "command"
    /\ out.enqueued = <<GoodBlock>>

\* the most results of one vector send_block_response_messages is given
MaxResults == 2

\* the most entries of the expected-transactions list
MaxTxs == 2

\* the lists of expected txids
TxLists == SeqsUpTo({1, 2}, MaxTxs)

\* the transactions of a block, by txid
BlockTxs == {<<>>, <<1>>, <<2>>, <<1, 2>>}

\* the BlockInfos determine_vote may be given: the cached ones and a new one
VotedBlockInfos ==
    {blocks[h] : h \in DOMAIN blocks} \cup {BlockInfo_new(GoodBlock)}

\* C26: determine_vote stores the 32-byte hash as the vote if and only if
\* valid = Some(true) and every expected txid is among the block's
\* transactions, and hash || 'n' otherwise; with no expected transactions
\* the vote is the hash exactly when valid = Some(true).  The NonceRequest
\* message and BlockInfo.vote get the same bytes, and nothing else changes.
C26_DetermineVote ==
    pc = "event" =>
    \A info \in VotedBlockInfos, valid \in {None, Some(TRUE), Some(FALSE)} :
    \A txs \in BlockTxs, txids \in TxLists :
       LET block_info == [info EXCEPT !.valid = valid, !.block.txs = txs]
           request == NonceRequestOf(serialize_to_vec(block_info.block))
           d == determine_vote(block_info, request, txids, GoodHash)
           accept == /\ valid = Some(TRUE)
                     /\ \A i \in 1..Len(txids) : \E j \in 1..Len(txs) : txs[j] = txids[i]
       IN  /\ d.block_info.vote = Some(IF accept THEN GoodHash
                                       ELSE Append(GoodHash, VoteNo))
           /\ d.block_info = [block_info EXCEPT !.vote = d.block_info.vote]
           /\ d.nonce_request = [request EXCEPT !.message = Unwrap(d.block_info.vote)]
           /\ txids = <<>> =>
                 (Unwrap(d.block_info.vote) = GoodHash <=> valid = Some(TRUE))

\* the run-loop voted for a valid block and handed the request on with the
\* hash as its message
C26_Witness ==
    /\ pc = "command"
    /\ GoodHash \in DOMAIN blocks
    /\ blocks[GoodHash].valid = Some(TRUE)
    /\ blocks[GoodHash].vote = Some(GoodHash)
    /\ \E p \in HandedRequests :
          p.packet.msg.type = "NonceRequest" /\ p.packet.msg.message = GoodHash

\* the result vectors handle_packets may give send_block_response_messages
ResultVectors == SeqsUpTo({OpDkg, OpSign(TRUE), OpSign(FALSE), OpSignTaproot}, MaxResults)

\* the run-loop with its coordinator's message and aggregate key replaced
WithCoordinator(message, key) ==
    [Self EXCEPT !.coordinator = [aggregate_public_key |-> key, message |-> message]]

\* the block hash send_block_response_messages reads in a message
HashIn(message) ==
    hash_from_bytes(IF Len(message) > HashLen
                    THEN SubSeq(message, 1, HashLen) ELSE message)

\* C27: with the aggregate key set, the first Sign result of a vector that
\* verifies over the coordinator's message, on a block that is in the
\* cache, publishes exactly one response: BlockResponse::Accepted with the
\* block carrying the produced signature when the message is the 32-byte
\* hash, BlockRejection(block, SignedRejection) for every other message.
\* A result that does not verify, or one on a block that is not cached (or
\* no longer cached), publishes nothing.
C27_BlockResponses ==
    pc = "event" =>
    \A message \in ShareMessages, operation_results \in ResultVectors :
       LET s == WithCoordinator(message, Some(1))
           after == send_block_response_messages(s, operation_results)
           hash == HashIn(message)
           verified == \E i \in 1..Len(operation_results) :
                          /\ operation_results[i].type = "Sign"
                          /\ operation_results[i].verifies
           cached == IsSome(hash) /\ Unwrap(hash) \in DOMAIN blocks
       IN  IF verified /\ cached
           THEN LET block == [blocks[Unwrap(hash)].block EXCEPT !.signer_signature = 1]
                IN  after.out.published =
                       Append(out.published,
                              IF message = Unwrap(hash)
                              THEN [kind |-> "BlockResponse::Accepted", block |-> block]
                              ELSE [kind |-> "BlockRejection", block |-> block,
                                    reason |-> "SignedRejection"])
           ELSE after.out.published = out.published

\* the signature over the hash of a cached block was published as Accepted
C27_Witness ==
    /\ pc = "command"
    /\ \E i \in 1..Len(out.published) :
          /\ out.published[i].kind = "BlockResponse::Accepted"
          /\ out.published[i].block = [GoodBlock EXCEPT !.signer_signature = 1]
    /\ \E i \in 1..Len(out.results) : out.results[i] = OpSign(TRUE)

\* C28: a Sign result that verifies removes the BlockInfo of the block its
\* message names and leaves the other entries alone, so that the same
\* results handled once more publish nothing; results none of which
\* verifies, and any results while the aggregate key is unset, leave the
\* cache and the published messages as they are.
C28_VerifiedResultRemovesBlockInfo ==
    pc = "event" =>
    \A message \in ShareMessages, operation_results \in ResultVectors :
       LET s == WithCoordinator(message, Some(1))
           after == send_block_response_messages(s, operation_results)
           again == send_block_response_messages(after, operation_results)
           unset == send_block_response_messages(WithCoordinator(message, None),
                                                 operation_results)
           hash == HashIn(message)
           verified == \E i \in 1..Len(operation_results) :
                          /\ operation_results[i].type = "Sign"
                          /\ operation_results[i].verifies
       IN  /\ IF verified /\ IsSome(hash)
              THEN /\ Unwrap(hash) \notin DOMAIN after.blocks
                   /\ \A h \in DOMAIN blocks \ {Unwrap(hash)} :
                         h \in DOMAIN after.blocks /\ after.blocks[h] = blocks[h]
              ELSE after.blocks = blocks
           /\ ~verified => after.out.published = out.published
           /\ again.out.published = after.out.published
           /\ again.blocks = after.blocks
           /\ unset.blocks = blocks
           /\ unset.out.published = out.published

\* the BlockInfo of the block was removed when its signature was published
C28_Witness ==
    /\ pc = "command"
    /\ GoodHash \notin DOMAIN blocks
    /\ \E i \in 1..Len(out.results) : out.results[i] = OpSign(TRUE)
    /\ \E i \in 1..Len(out.published) :
          /\ out.published[i].kind \in {"BlockResponse::Accepted", "BlockRejection"}
          /\ out.published[i].block.hdr = GoodHdr

\* BlockRejection::new(block, RejectCode::InvalidSignatureHash)
InvalidSignatureHash(block) ==
    [kind |-> "BlockRejection", block |-> block, reason |-> "InvalidSignatureHash"]

\* the chunk of a miner that proposes the block
ProposalOf(block) == [slot_id |-> 0, data |-> serialize_to_vec(block)]

\* C29: a proposal of a miner and a verdict, Ok or Reject, on a block whose
\* header has no signature hash publish one
\* BlockRejection(block, InvalidSignatureHash) and do nothing else: no
\* BlockInfo is inserted, no block submitted, no Sign appended, no round
\* started, the state is as before; a proposal of the same batch that has
\* a hash is handled as if it came alone.
C29_InvalidSignatureHash ==
    LET rejected == [Self EXCEPT !.out.published = Append(@, InvalidSignatureHash(BadBlock))]
    IN  /\ pc = "event" =>
           \A ok \in BOOLEAN :
           \A answers \in RoleAnswers(<<>>, RoundResults, FALSE) :
              handle_block_validate_response(Self, [ok |-> ok, block |-> BadBlock],
                                             answers) = rejected
        /\ pc = "event" =>
              handle_stackerdb_chunk_event_miners(Self, <<ProposalOf(BadBlock)>>) = rejected
        /\ pc = "event" =>
           LET alone == handle_stackerdb_chunk_event_miners(Self, <<ProposalOf(GoodBlock)>>)
               both == handle_stackerdb_chunk_event_miners(
                           Self, <<ProposalOf(GoodBlock), ProposalOf(BadBlock)>>)
           IN  both = [alone EXCEPT !.out.published =
                                       Append(@, InvalidSignatureHash(BadBlock))]
        /\ (/\ pc = "command"
            /\ out.dispatched = Some("BlockProposal")
            /\ \E i \in 1..Len(out.published) :
                  out.published[i] = InvalidSignatureHash(BadBlock)) =>
              out = [NoOut EXCEPT !.dispatched = Some("BlockProposal"),
                                  !.published = <<InvalidSignatureHash(BadBlock)>>]

\* the verdict on a block with no signature hash was answered
C29_Witness ==
    /\ pc = "command"
    /\ out.dispatched = Some("BlockProposal")
    /\ out.published = <<InvalidSignatureHash(BadBlock)>>
    /\ DOMAIN blocks # {}

\* the batches handle_packets is given: none, and a nonce request
Batches ==
    {<<>>,
     <<[packet |-> [msg |-> NonceRequestOf(GoodHash), sig |-> CoordinatorKey],
        arrived |-> NonceRequestOf(serialize_to_vec(GoodBlock))]>>}

\* the outbound packets of the signer role and of the coordinator role
SignerOutbound == <<[msg |-> [type |-> "NonceResponse", signer_id |-> 0], sig |-> 0]>>
CoordinatorOutbound == <<[msg |-> [type |-> "DkgBegin"], sig |-> 0]>>

\* the messages published in this pass that are packets of type
PublishedPackets(published, type) ==
    {i \in 1..Len(published) :
        published[i].kind = "Packet" /\ published[i].packet.msg.type = type}

\* C30: handle_packets gives every batch to the signer role and then to the
\* coordinator role.  An Err of the signer role is the same as a signer
\* with no outbound packets: the coordinator's packets, block responses and
\* results are published as without the Err.  An Err of the coordinator
\* role is the same as a coordinator with no packets and no results: the
\* signer's packets are published.
C30_RoleErrorsAreNoOutput ==
    /\ pc = "event" =>
       \A packets \in Batches, rs \in RoundResults :
          LET c == [outbound |-> CoordinatorOutbound, results |-> rs, take |-> FALSE]
              nothing == [outbound |-> <<>>, results |-> <<>>, take |-> FALSE]
              run(signer, coord) ==
                  handle_packets(Self, packets, [signer |-> signer, coordinator |-> coord])
              both == run(Some(SignerOutbound), Some(c))
              signer_err == run(None, Some(c))
              coord_err == run(Some(SignerOutbound), None)
          IN  /\ signer_err = run(Some(<<>>), Some(c))
              /\ coord_err = run(Some(SignerOutbound), Some(nothing))
              /\ run(None, None) = run(Some(<<>>), Some(nothing))
              /\ \A r \in {both, signer_err, coord_err, run(None, None)} :
                    /\ r.out.roles = out.roles \o <<"signer", "coordinator">>
                    /\ r.out.handoff = Some([packets |-> packets, blocks |-> blocks])
              /\ signer_err.out.results = both.out.results
              /\ signer_err.state = both.state
              /\ signer_err.blocks = both.blocks
              /\ Len(signer_err.out.published) + Len(SignerOutbound)
                    = Len(both.out.published)
              /\ PublishedPackets(signer_err.out.published, "NonceResponse")
                    = PublishedPackets(out.published, "NonceResponse")
              /\ PublishedPackets(signer_err.out.published, "DkgBegin")
                    # PublishedPackets(out.published, "DkgBegin")
              /\ coord_err.out.published =
                    out.published \o [i \in 1..Len(SignerOutbound) |->
                                         [kind |-> "Packet", packet |-> SignerOutbound[i]]]
    /\ IsSome(out.handoff) => out.roles = <<"signer", "coordinator">>

\* the signer role answered a batch with an Err and the coordinator's
\* packets and results were published
C30_Witness ==
    /\ pc = "command"
    /\ out.roles = <<"signer", "coordinator">>
    /\ PublishedPackets(out.published, "NonceResponse") = {}
    /\ PublishedPackets(out.published, "DkgBegin") # {}
    /\ out.results # <<>>

\* C31 as stated: a Sign command on a block with no signature hash fails
\* with no BlockInfo inserted and no round started, and the pass that popped
\* it comes to its end with the state Idle.
C31_BadSignEndsThePass ==
    out.popped = Some(CmdSign(BadBlock)) =>
       /\ pc \in {"command", "wait"}
       /\ state = "Idle"
       /\ out.started = <<>>

\* whether execute_command asks the coordinator to start a round for the
\* command: a Dkg, or a Sign of a block with a hash that is in no round
AsksToStart(s, command) ==
    \/ command.type = "Dkg"
    \/ /\ command.type = "Sign"
       /\ IsSome(signature_hash(command.block))
       /\ LET h == Unwrap(signature_hash(command.block))
          IN  h \in DOMAIN s.blocks => ~s.blocks[h].signing_round

\* C32: when the coordinator fails to start the round of a Dkg or a Sign,
\* execute_command resets the coordinator, publishes nothing, leaves the
\* state and the queue alone and the Sign's signing_round false;
\* process_next_command tries the same command again, so that a second
\* call that succeeds starts the round, and the state is Dkg or Sign only
\* after a call that succeeded.
C32_FailedStartIsRetried ==
    /\ pc = "command" =>
       \A command \in RoundCommands, id \in PingIds :
          AsksToStart(Self, command) =>
             LET failed == execute_command(Self, command, FALSE, id)
                 h == Unwrap(signature_hash(command.block))
                 queued == [Self EXCEPT !.commands = <<command>> \o @,
                                        !.state = "Idle"]
                 popped == [queued EXCEPT !.commands = Tail(@),
                                          !.out.popped = Some(command)]
                 again == process_next_command(queued, "retry", id)
                 never == process_next_command(queued, "never", id)
             IN  /\ ~failed.ok
                 /\ failed.s.out.resets = 1
                 /\ failed.s.out.published = out.published
                 /\ failed.s.out.started = out.started
                 /\ failed.s.state = state
                 /\ failed.s.commands = commands
                 /\ command.type = "Sign" => ~failed.s.blocks[h].signing_round
                 /\ again = execute_command(
                                execute_command(popped, command, FALSE, id).s,
                                command, TRUE, id).s
                 /\ again.state = command.type
                 /\ ~again.hung
                 /\ never.hung /\ never.state = "Idle"
                 /\ never.out.published = out.published
    /\ (pc \in {"wait", "hung"} /\ IsSome(out.popped)
           /\ Unwrap(out.popped).type \in {"Dkg", "Sign"}) =>
          /\ state \in {"Dkg", "Sign"} <=> out.started # <<>>
          /\ out.started # <<>> => /\ state = Unwrap(out.popped).type
                                    /\ pc = "wait"
          /\ pc = "hung" => state = "Idle"

\* the coordinator failed to start the round, was reset, and started it
\* at the next call
C32_Witness ==
    /\ pc = "wait"
    /\ out.resets = 1
    /\ IsSome(out.popped)
    /\ out.started = <<Unwrap(out.popped).type>>
    /\ state = Unwrap(out.popped).type

\* the chunks of one event of the signers' StackerDB: pings and pongs in
\* the ping slots, pings in other slots, and a packet of the coordinator
MixedChunks ==
    PingChunks \cup StrayPingChunks
    \cup {PacketChunk([type |-> "NonceResponse", signer_id |-> 1], OtherKey)}

\* a ping or a pong in the ping slot of a signer
InPingSlot(chunk) == chunk.data.kind = "Ping" /\ is_ping_slot(chunk.slot_id)

\* a Ping in the ping slot of another signer
PingOfPeer(chunk) ==
    /\ InPingSlot(chunk)
    /\ chunk.slot_id # ping_slot_id(signer_id)
    /\ chunk.data.packet.type = "Ping"

\* a chunk that is no ping and no pong of a ping slot
NotLatency(chunk) == ~InPingSlot(chunk)

\* C33: for every Ping in the ping slot of another signer the signer
\* publishes one Pong with the id and the payload of the Ping, in the order
\* of the chunks, and publishes nothing else; the pings and pongs of the
\* ping slots are kept from packet verification, and every other chunk is
\* handed on as it came and in the order it came.
C33_PingIsAnsweredAndConsumed ==
    pc = "event" =>
    \A chunks \in ChunkEvents(MixedChunks) :
       LET r == filter_and_process_ping_chunks(Self, chunks)
           pings == SelectSeq(chunks, PingOfPeer)
       IN  /\ r.signer_chunks = SelectSeq(chunks, NotLatency)
           /\ r.s.out.published =
                 out.published \o
                 [i \in 1..Len(pings) |->
                     [kind |-> "Ping",
                      packet |-> [type |-> "Pong", id |-> pings[i].data.packet.id,
                                  payload |-> pings[i].data.packet.payload]]]
           /\ r.s.blocks = blocks /\ r.s.commands = commands
           /\ r.s.state = state /\ r.s.ping_entries = ping_entries

\* one ping of a peer was answered with one pong, and nothing else was a
\* ping or a pong of the signer's own
C33_Witness ==
    /\ pc = "command"
    /\ out.dispatched = Some("StackerDB signers")
    /\ Cardinality(PublishedLatency) = 1
    /\ \A packet \in PublishedLatency : packet.type = "Pong" /\ packet.payload = <<1>>
    /\ out.ignored = 0
    /\ out.rtt = <<>>

\* the pongs of the peers: every id, with and without a payload, in the
\* ping slot of every signer but this one
PongsOfPeers ==
    {[slot_id |-> ping_slot_id(i),
      data |-> [kind |-> "Ping", packet |-> [type |-> "Pong", id |-> n, payload |-> p]]] :
        i \in SignerIds \ {signer_id}, n \in PingIds \cup {0}, p \in Payloads}

\* C34: a Pong of a peer logs an RTT sample exactly when its id is in the
\* registry, and changes nothing else; with an id that is not registered
\* it changes nothing at all.  A Ping command registers the id of its ping
\* (one entry more when the id is new), publishes the ping and leaves state,
\* cache and queue alone.  Only Ping commands register ids, and no handler
\* takes an id out of the registry.
C34_PingRegistry ==
    /\ pc = "event" =>
          /\ \A chunk \in PongsOfPeers :
                LET r == filter_and_process_ping_chunks(Self, <<chunk>>)
                    id == chunk.data.packet.id
                IN  /\ r.signer_chunks = <<>>
                    /\ r.s = IF id \in ping_entries
                             THEN [Self EXCEPT !.out.rtt = Append(@, id)]
                             ELSE Self
          /\ \A chunks \in ChunkEvents(MixedChunks) :
             \A answers \in RoleAnswers(<<>>, {<<>>}, TRUE) :
                handle_stackerdb_chunk_event_signers(Self, chunks, answers).ping_entries
                   = ping_entries
          /\ \A response \in Verdicts, answers \in RoleAnswers(<<>>, RoundResults, TRUE) :
                handle_block_validate_response(Self, response, answers).ping_entries
                   = ping_entries
          /\ \A chunks \in ChunkEvents(MinerChunks) :
                handle_stackerdb_chunk_event_miners(Self, chunks).ping_entries
                   = ping_entries
    /\ pc = "init" =>
          \A key \in {None, Some(1)} : initialize(Self, key).ping_entries = ping_entries
    /\ pc = "command" =>
          /\ \A id \in PingIds, start_ok \in BOOLEAN :
                LET e == execute_command(Self, CmdPing, start_ok, id)
                IN  /\ e.ok
                    /\ e.s = [Self EXCEPT
                                 !.ping_entries = @ \cup {id},
                                 !.out.published =
                                     Append(@, [kind |-> "Ping",
                                                packet |-> [type |-> "Ping", id |-> id,
                                                            payload |-> <<>>]])]
                    /\ id \notin ping_entries =>
                          Cardinality(e.s.ping_entries) = Cardinality(ping_entries) + 1
          /\ \A command \in Commands \ {CmdPing}, id \in PingIds, start_ok \in BOOLEAN :
                execute_command(Self, command, start_ok, id).s.ping_entries = ping_entries
          /\ \A starts \in {"ok", "retry", "never"}, id \in PingIds :
                ping_entries \subseteq process_next_command(Self, starts, id).ping_entries
    /\ \A i \in 1..Len(out.rtt) : out.rtt[i] \in ping_entries

\* the pong of a ping this signer sent gave one RTT sample
C34_Witness ==
    /\ pc = "command"
    /\ out.rtt = <<1>>
    /\ ping_entries = {1}
    /\ out.ignored = 0

\* the smallest id of a non-empty peer set
SmallestId(keys) == CHOOSE i \in DOMAIN keys : \A j \in DOMAIN keys : i <= j

\* C35: for the peer set of the run-loop, with or without signer 0,
\* calculate_coordinator returns the smallest id of the set and the key of
\* that signer.
C35_CoordinatorIsSmallestId ==
    pc = "event" =>
       /\ ~calculate_coordinator_panics(public_keys)
       /\ calculate_coordinator(public_keys)
             = <<SmallestId(public_keys), public_keys[SmallestId(public_keys)]>>

\* C36: every cached block that holds a pending nonce request and has no
\* verdict yet was given to submit_block_for_validation, in this pass or an
\* earlier one, whichever way its entry came into the cache.
C36_PendingRequestWasSubmitted ==
    \A h \in DOMAIN blocks :
       (IsSome(blocks[h].nonce_request) /\ ~IsSome(blocks[h].valid)) =>
          blocks[h].block \in validating

\* C37: a cached block with a vote has a verdict, and a cached block whose
\* vote is the accept vote (the 32 bytes of the hash) is marked valid.
C37_VoteFollowsVerdict ==
    \A h \in DOMAIN blocks :
       IsSome(blocks[h].vote) =>
          /\ IsSome(blocks[h].valid)
          /\ Len(Unwrap(blocks[h].vote)) = HashLen => blocks[h].valid = Some(TRUE)

\* the queue holds command c, with signer 0 among the peers (where
\* calculate_coordinator answers)
Queued(c) ==
    /\ 0 \in DOMAIN public_keys
    /\ \E i \in 1..Len(commands) : commands[i] = c

\* C38: when the host keeps calling run_one_pass and every round that was
\* started ends with a result, every command the queue holds is popped by
\* process_next_command in the end.
C38_EveryCommandIsPopped ==
    \A c \in Commands : Queued(c) ~> (out.popped = Some(c))

\* apart from a pass that never returns, every command is popped
PoppedUnlessHung ==
    \A c \in Commands : Queued(c) ~> (out.popped = Some(c) \/ pc = "hung")

\* the hashes whose entry of cache after holds a nonce request that the
\* entry of cache before did not hold
NewlyStored(before, after) ==
    {h \in DOMAIN after :
        /\ IsSome(after[h].nonce_request)
        /\ h \in DOMAIN before => before[h].nonce_request # after[h].nonce_request}

\* the chunk is a packet with the request, signed with the key of the
\* coordinator that calculate_coordinator elects
SignedRequest(chunk, request) ==
    /\ chunk.data.kind = "Packet"
    /\ chunk.data.packet.msg = request
    /\ chunk.data.packet.sig = calculate_coordinator(public_keys)[2]

\* C39: a nonce request gets into a BlockInfo only from a chunk of a
\* .signers event whose packet carries it with the signature of the elected
\* coordinator; verdicts, proposals of miners and commands store none.  The
\* request a verdict resumes and hands to the roles with the empty signature
\* is the one the cache held, message and all.
C39_StoredRequestWasVerified ==
    /\ pc = "event" =>
          /\ ~calculate_coordinator_panics(public_keys) =>
                \A chunks \in ChunkEvents(RequestChunks) :
                   LET f == filter_signer_chunks(Self, chunks)
                   IN  \A h \in NewlyStored(blocks, f.s.blocks) :
                          \E i \in 1..Len(chunks) :
                             SignedRequest(chunks[i], Unwrap(f.s.blocks[h].nonce_request))
          /\ \A response \in Verdicts :
             \A answers \in RoleAnswers(<<>>, RoundResults, FALSE) :
                LET r == handle_block_validate_response(Self, response, answers)
                    h == Unwrap(signature_hash(response.block))
                IN  /\ NewlyStored(blocks, r.blocks) = {}
                    /\ IsSome(r.out.resumed) =>
                          /\ h \in DOMAIN blocks
                          /\ IsSome(blocks[h].nonce_request)
                          /\ Len(Unwrap(r.out.handoff).packets) = 1
                          /\ Unwrap(r.out.handoff).packets[1].arrived
                                = Unwrap(blocks[h].nonce_request)
                          /\ Unwrap(r.out.handoff).packets[1].packet.sig = 0
          /\ \A chunks \in ChunkEvents(MinerChunks) :
                NewlyStored(blocks,
                            handle_stackerdb_chunk_event_miners(Self, chunks).blocks) = {}
    /\ pc = "command" =>
          \A starts \in {"ok", "retry", "never"}, id \in PingIds :
             NewlyStored(blocks, process_next_command(Self, starts, id).blocks) = {}

\* a verdict resumed the nonce request the coordinator had signed
C39_Witness ==
    /\ pc = "command"
    /\ IsSome(out.resumed)
    /\ Unwrap(out.handoff).packets[1].packet.sig = 0
    /\ Unwrap(out.handoff).packets[1].arrived.type = "NonceRequest"
    /\ validating # {}

\* the Sign commands of the blocks
SignsOf(enqueued) == [i \in 1..Len(enqueued) |-> CmdSign(enqueued[i])]

\* C40: the steps of a pass.  The first appends the command of the host, if
\* any, and nothing else moves; it comes before the initialization, which
\* may put a Dkg in front, and before the event, which may append the Sign
\* of a verdict; none of these pops.  The last pops the head of the queue or
\* leaves the queue alone: one command at most, also after a Ping, which
\* leaves the state Idle and the rest of the queue in place.
C40_OnePushOnePopPerPass ==
    [][/\ pc = "wait" =>
             /\ pc' = "init"
             /\ state' = state
             /\ blocks' = blocks
             /\ \/ commands' = commands
                \/ \E c \in Commands : commands' = Append(commands, c)
       /\ pc = "init" => commands' \in {commands, <<CmdDkg>> \o commands}
       /\ pc = "event" =>
             /\ commands' = commands \o SignsOf(out'.enqueued)
             /\ Len(out'.enqueued) <= 1
       /\ pc \in {"wait", "init", "event"} => out'.popped = None
       /\ pc = "command" =>
             IF commands = <<>> \/ state # "Idle"
             THEN commands' = commands /\ out'.popped = None
             ELSE /\ commands' = Tail(commands)
                  /\ out'.popped = Some(Head(commands))
                  /\ Head(commands) = CmdPing =>
                        pc' = "wait" /\ state' = "Idle"
      ]_vars

\* a pass popped a Ping and ended Idle with commands left in the queue
C40_Witness ==
    /\ pc = "wait"
    /\ out.popped = Some(CmdPing)
    /\ state = "Idle"
    /\ commands # <<>>

====
